---- MODULE Spec2Model ----
(***************************************************************************)
(* Model of the water-testbed data-reduction pipeline (main.py) and of the *)
(* functions it drives (functions/functions.py, plotid).                   *)
(*                                                                         *)
(* Floating-point values are modelled as exact rationals [k, n, d] with    *)
(* d > 0 in lowest terms (k = "num"), as the square root of a rational     *)
(* that has no rational root (k = "surd"), as not-a-number (k = "nan") or  *)
(* as Python's None (k = "none").  A Python exception raised by an         *)
(* expression is a value whose k is the exception's name.                  *)
(*                                                                         *)
(* The input archive is read-only; what it holds at a path is drawn when   *)
(* the pipeline looks the path up.  Spec is the pipeline, SpecStore the    *)
(* result store under any sequence of saves and reads, SpecFn a single     *)
(* application of one function of functions.py or of the inner loop body.  *)
(***************************************************************************)
EXTENDS Integers, Sequences, FiniteSets, TLC

VARIABLES
    pc,                   \* position of main(): outer loop, inner loop, save, ...
    gi,                   \* index of the current group in group_names
    setpoint,             \* setpoint of the current group (main.py:52)
    run_id,               \* inner loop variable (main.py:62)
    groups_service_loss,  \* run-set of service-loss values (main.py:58)
    groups_power,         \* run-set of energy values (main.py:59)
    processed_data,       \* the aggregated table, group id -> row (main.py:36)
    store,                \* the output archive: key -> stored node
    plot_data,            \* table read back (main.py:157)
    plot_format_data,     \* metadata read back (main.py:157)
    err,                  \* the exception that ended the program, or "none"
    accessed,             \* archive paths looked up so far
    last_run,             \* input and outcome of the latest run of the current group
    last_output_dir,      \* plotid.tagplot._last_output_dir
    had_setpoint,         \* groups whose setpoint was read
    no_setpoint,          \* groups whose setpoint was absent
    written,              \* key -> arguments of the latest save at that key
    call,                 \* a single function application: function and arguments
    ret                   \* its result

vars == <<pc, gi, setpoint, run_id, groups_service_loss, groups_power,
          processed_data, store, plot_data, plot_format_data, err, accessed,
          last_run, last_output_dir, had_setpoint, no_setpoint, written,
          call, ret>>

pipeVars == <<pc, gi, setpoint, run_id, groups_service_loss, groups_power,
              processed_data, plot_data, plot_format_data, err, accessed,
              last_run, last_output_dir, had_setpoint, no_setpoint>>

-----------------------------------------------------------------------------
(* Bounds *)

NumRuns == 2         \* runs per group in the model (range(1, 11) in main.py)
MaxLen == 3          \* longest signal drawn for a single function application
MaxVal == 2          \* largest sample drawn for a single function application
MaxWrites == 3       \* writes to the result store in one behaviour

-----------------------------------------------------------------------------
(* Numbers *)

Abs(i) == IF i < 0 THEN -i ELSE i

RECURSIVE Gcd(_, _)
Gcd(a, b) == IF b = 0 THEN a ELSE Gcd(b, a % b)

Rat(n, d) ==
    LET g == Gcd(Abs(n), Abs(d))
        s == IF d < 0 THEN -1 ELSE 1
    IN  [k |-> "num", n |-> (s * n) \div g, d |-> (s * d) \div g]

FromInt(i) == [k |-> "num", n |-> i, d |-> 1]
NaN == [k |-> "nan", n |-> 0, d |-> 1]
None == [k |-> "none", n |-> 0, d |-> 1]
Raised(exc) == [k |-> exc, n |-> 0, d |-> 1]
Zero == FromInt(0)
Half == Rat(1, 2)

IsRaised(x) == x.k \in {"TypeError", "ZeroDivisionError", "KeyError"}

\* Arithmetic on floats.  NaN is absorbing; both operands are numbers or NaN.
RAdd(x, y) == IF x.k = "nan" \/ y.k = "nan" THEN NaN
              ELSE Rat(x.n * y.d + y.n * x.d, x.d * y.d)
RSub(x, y) == IF x.k = "nan" \/ y.k = "nan" THEN NaN
              ELSE Rat(x.n * y.d - y.n * x.d, x.d * y.d)
RMul(x, y) == IF x.k = "nan" \/ y.k = "nan" THEN NaN
              ELSE Rat(x.n * y.n, x.d * y.d)
RDivInt(x, i) == IF x.k = "nan" THEN NaN ELSE Rat(x.n, x.d * i)

RECURSIVE ISqrtFrom(_, _)
ISqrtFrom(i, r) == IF (r + 1) * (r + 1) > i THEN r ELSE ISqrtFrom(i, r + 1)
ISqrt(i) == ISqrtFrom(i, 0)

\* numpy.sqrt of a non-negative float
RSqrt(x) ==
    IF x.k = "nan" THEN NaN
    ELSE LET rn == ISqrt(x.n)
             rd == ISqrt(x.d)
         IN  IF rn * rn = x.n /\ rd * rd = x.d
             THEN Rat(rn, rd)
             ELSE [k |-> "surd", n |-> x.n, d |-> x.d]

\* Python's binary + on two results of integral_with_time_step (main.py:112-115)
PyAdd(x, y) == IF x.k = "none" \/ y.k = "none" THEN Raised("TypeError")
               ELSE RAdd(x, y)

-----------------------------------------------------------------------------
(* functions.py *)

\* [f"{c}_{t}_{d}" for c in controller for t in topology for d in disruption]:
\* the disruption varies fastest, the controller slowest
generate_group_name(controller, topology, disruption) ==
    LET nt == Len(topology)
        nd == Len(disruption)
    IN  [i \in 1..(Len(controller) * nt * nd) |->
            controller[((i - 1) \div (nt * nd)) + 1] \o "_"
            \o topology[(((i - 1) \div nd) % nt) + 1] \o "_"
            \o disruption[((i - 1) % nd) + 1]]

\* numpy.clip(service_data, 0.0, setpoint): minimum(maximum(x, 0), setpoint)
Max2(a, b) == IF a >= b THEN a ELSE b
Min2(a, b) == IF a <= b THEN a ELSE b

\* a clip that bounds the signal from above only
cap_upper_only(service_data, sp) ==
    [i \in 1..Len(service_data) |-> Min2(service_data[i], sp)]

cap_service_data(service_data, sp) ==
    [i \in 1..Len(service_data) |-> Min2(Max2(service_data[i], 0), sp)]

check_negative_values(array) == \A i \in 1..Len(array) : array[i] >= 0

\* a loop that sums left rectangles, data[i] * dt, instead of trapezoids
RECURSIVE IntegralLoopRectangle(_, _, _, _)
IntegralLoopRectangle(data, time_steps, i, integral) ==
    IF i > Len(data) - 1 THEN integral
    ELSE IntegralLoopRectangle(data, time_steps, i + 1,
             RAdd(integral,
                  FromInt(data[i] * (time_steps[i + 1] - time_steps[i]))))

\* the loop of integral_with_time_step, from index i (1-based) with the
\* running value integral
RECURSIVE IntegralLoop(_, _, _, _)
IntegralLoop(data, time_steps, i, integral) ==
    IF i > Len(data) - 1 THEN integral
    ELSE LET dt == time_steps[i + 1] - time_steps[i]
         IN  IntegralLoop(data, time_steps, i + 1,
                 RAdd(integral,
                      RMul(RMul(Half, FromInt(data[i] + data[i + 1])),
                           FromInt(dt))))

integral_with_time_step(data, time_steps) ==
    IF Len(data) # Len(time_steps) THEN None
    ELSE IntegralLoop(data, time_steps, 1, Zero)

\* 100.0 * (1.0 - (service_fill / service_target)) on Python objects
calculate_service_loss(service_fill, service_target) ==
    IF service_fill.k = "none" \/ service_target.k = "none"
    THEN Raised("TypeError")
    ELSE IF service_target.n = 0 THEN Raised("ZeroDivisionError")
    ELSE RMul(FromInt(100),
              RSub(FromInt(1),
                   Rat(service_fill.n * service_target.d,
                       service_fill.d * service_target.n)))

convert_Ws_to_Wh(energy_in_Ws) == RDivInt(energy_in_Ws, 3600)

\* numpy.asarray(data, dtype=float): None becomes nan
AsFloat(x) == IF x.k = "none" THEN NaN ELSE x

RECURSIVE SumSeq(_)
SumSeq(s) == IF s = <<>> THEN Zero ELSE RAdd(Head(s), SumSeq(Tail(s)))

NpMean(arr) == RDivInt(SumSeq(arr), Len(arr))

\* numpy.std: sqrt(mean(abs(x - x.mean()) ** 2)), ddof = 0
NpStd(arr) ==
    LET m == NpMean(arr)
        dev == [i \in 1..Len(arr) |->
                    LET e == RSub(arr[i], m) IN RMul(e, e)]
    IN  RSqrt(NpMean(dev))

\* a reduction that drops the missing entries (numpy.nanmean, numpy.nanstd)
RECURSIVE DropMissing(_)
DropMissing(data) ==
    IF data = <<>> THEN <<>>
    ELSE IF Head(data).k \in {"nan", "none"} THEN DropMissing(Tail(data))
    ELSE <<Head(data)>> \o DropMissing(Tail(data))

mean_and_std_ignoring_missing(data) ==
    LET arr == DropMissing(data)
    IN  IF arr = <<>> THEN <<NaN, NaN>> ELSE <<NpMean(arr), NpStd(arr)>>

calculate_mean_and_std(data) ==
    LET arr == [i \in 1..Len(data) |-> AsFloat(data[i])]
    IN  <<NpMean(arr), NpStd(arr)>>

-----------------------------------------------------------------------------
(* The input archive.  A node is what the HDF5 file holds at one path: a   *)
(* group (<group_id>) or a run (<group_id>/run_NN) with its datasets.      *)

\* open: h5.File(file, "r") succeeds; exists: the path is in the file;
\* attrs: names of the attributes present; sets: names of the children
\* that are datasets
Node(open, exists, attrs, sp, start, sets, tank, p1, p2, time) ==
    [open |-> open, exists |-> exists, attrs |-> attrs, sp |-> sp,
     start |-> start, sets |-> sets, tank_1_pressure |-> tank,
     pump_1_power |-> p1, pump_2_power |-> p2, time |-> time]

AttrValue(node, attr_key) ==
    IF attr_key = "setpoint" THEN node.sp ELSE node.start

read_metadata(node, attr_key) ==
    IF ~node.open THEN None
    ELSE IF ~node.exists THEN None
    ELSE IF attr_key \notin node.attrs THEN None
    ELSE FromInt(AttrValue(node, attr_key))

NoArray == [k |-> "none", v |-> <<>>]

DatasetValue(node, name) ==
    CASE name = "tank_1_pressure" -> node.tank_1_pressure
      [] name = "pump_1_power" -> node.pump_1_power
      [] name = "pump_2_power" -> node.pump_2_power
      [] OTHER -> node.time

read_data(node, name) ==
    IF ~node.open THEN NoArray
    ELSE IF ~node.exists \/ name \notin node.sets THEN NoArray
    ELSE [k |-> "arr", v |-> DatasetValue(node, name)]

-----------------------------------------------------------------------------
(* main.py: the body of the inner loop *)

\* a[s:] for a 1-D array a and s an integer or None
PySliceFrom(a, s) ==
    LET start == IF s.k = "none" THEN 0
                 ELSE IF s.n < 0 THEN Max2(Len(a) + s.n, 0)
                 ELSE Min2(s.n, Len(a))
    IN  SubSeq(a, start + 1, Len(a))

\* an absence check that also covers the start index
AnyMissingWithIndex(start_time_index, tank_pressure, pump_1, pump_2, time) ==
    \/ start_time_index.k = "none"
    \/ \E x \in {tank_pressure, pump_1, pump_2, time} : x.k = "none"

\* any(x is None for x in (tank_pressure, pump_1, pump_2, time))
AnyMissing(start_time_index, tank_pressure, pump_1, pump_2, time) ==
    \E x \in {tank_pressure, pump_1, pump_2, time} : x.k = "none"

\* numpy.full_like(a, fill_value)
FullLike(a, fill_value) == [i \in 1..Len(a) |-> fill_value]

\* the time base the pump powers are integrated over (main.py:113-114)
EnergyWindow(time, start_time_index) == time

\* service integrals taken over the whole series
ServiceWindowWhole(a, start_time_index) == a

\* the signals the service integrals are taken over (main.py:92-104)
ServiceWindow(a, start_time_index) == PySliceFrom(a, start_time_index)

Outcome(status, sl, energy, warned) ==
    [status |-> status, sl |-> sl, energy |-> energy, warned |-> warned]

\* main.py:66-120 for one run: status "missing" (placeholders appended),
\* "computed" (metric pair appended) or "raised" (an exception leaves main)
RunBody(sp, node) ==
    LET start_time_index == read_metadata(node, "analyse_start_time_index")
        tank_pressure == read_data(node, "tank_1_pressure")
        pump_1 == read_data(node, "pump_1_power")
        pump_2 == read_data(node, "pump_2_power")
        time == read_data(node, "time")
    IN  IF AnyMissing(start_time_index, tank_pressure, pump_1, pump_2, time)
        THEN Outcome("missing", NaN, NaN, FALSE)
        ELSE
        LET service_fill == cap_service_data(tank_pressure.v, sp)
            warned == ~(check_negative_values(pump_1.v)
                        /\ check_negative_values(pump_2.v))
            fill_window == ServiceWindow(service_fill, start_time_index)
            time_window == ServiceWindow(time.v, start_time_index)
            service_fill_integral ==
                integral_with_time_step(fill_window, time_window)
            service_target_signal == FullLike(fill_window, sp)
            service_target_integral ==
                integral_with_time_step(service_target_signal, time_window)
            service_loss_percent ==
                calculate_service_loss(service_fill_integral,
                                       service_target_integral)
            total_energy_ws ==
                PyAdd(integral_with_time_step(
                          pump_1.v, EnergyWindow(time.v, start_time_index)),
                      integral_with_time_step(
                          pump_2.v, EnergyWindow(time.v, start_time_index)))
        IN  IF IsRaised(service_loss_percent)
            THEN Outcome("raised", service_loss_percent, NaN, warned)
            ELSE IF IsRaised(total_energy_ws)
            THEN Outcome("raised", total_energy_ws, NaN, warned)
            ELSE Outcome("computed", service_loss_percent,
                         convert_Ws_to_Wh(total_energy_ws), warned)

-----------------------------------------------------------------------------
(* The result store (functions.py:165-215).  The store maps a key to a     *)
(* node [table, attrs]; a table maps a row key to its row.                 *)

Row(power_mean, power_std, service_loss_mean, service_loss_std) ==
    [power_mean |-> power_mean, power_std |-> power_std,
     service_loss_mean |-> service_loss_mean,
     service_loss_std |-> service_loss_std]

NaNRow == Row(NaN, NaN, NaN, NaN)
EmptyTable == [g \in {} |-> NaNRow]

Metadata(legend_title, x_label, x_unit, y_label, y_unit) ==
    [legend_title |-> legend_title, x_label |-> x_label, x_unit |-> x_unit,
     y_label |-> y_label, y_unit |-> y_unit]

NoMetadata == Metadata("", "", "", "", "")
EmptyAttrs == [a \in {} |-> NoMetadata]
StoreNode(table, attrs) == [table |-> table, attrs |-> attrs]
EmptyStore == [key \in {} |-> StoreNode(EmptyTable, EmptyAttrs)]

\* store.remove(group_name)
StoreRemove(st, group_name) == [key \in DOMAIN st \ {group_name} |-> st[key]]

\* store.put(group_name, df, 'table'): pandas writes no node for a frame
\* without rows in table format; otherwise the node is created anew
StorePut(st, group_name, df) ==
    IF DOMAIN df = {} THEN st
    ELSE [key \in DOMAIN st \cup {group_name} |->
              IF key = group_name THEN StoreNode(df, EmptyAttrs) ELSE st[key]]

\* storer.attrs.metadata = metadata
SetMetadataAttr(attrs, metadata) ==
    [a \in DOMAIN attrs \cup {"metadata"} |->
         IF a = "metadata" THEN metadata ELSE attrs[a]]

\* the store after the call, and the exception it raised ("none" if none):
\* store.get_storer raises KeyError when the file has no node of that name
save_dataframe_in_hdf5_with_metadata(st, df, group_name, metadata) ==
    LET removed == IF group_name \in DOMAIN st
                   THEN StoreRemove(st, group_name) ELSE st
        put == StorePut(removed, group_name, df)
    IN  IF group_name \notin DOMAIN put
        THEN [store |-> put, exc |-> "KeyError"]
        ELSE [store |-> [put EXCEPT ![group_name].attrs =
                             SetMetadataAttr(@, metadata)],
              exc |-> "none"]

read_plot_data(st, group_path) ==
    IF group_path \notin DOMAIN st
    THEN [df |-> EmptyTable, metadata |-> NoMetadata, exc |-> "KeyError"]
    ELSE IF "metadata" \notin DOMAIN st[group_path].attrs
    THEN [df |-> st[group_path].table, metadata |-> NoMetadata,
          exc |-> "AttributeError"]
    ELSE [df |-> st[group_path].table,
          metadata |-> st[group_path].attrs["metadata"], exc |-> "none"]

\* the latest save at each key, updated by a save of (df, metadata) at key
NoteWrite(w, key, df, metadata) ==
    [x \in DOMAIN w \cup {key} |->
         IF x = key THEN [table |-> df, metadata |-> metadata] ELSE w[x]]

-----------------------------------------------------------------------------
(* main.py: constants *)

controllers == <<"ARIMA", "DTW", "PID">>
topologies == <<"Coupled", "Decentral", "Central">>
disruptions == <<"BlockageConstant", "BlockageCosine", "PumpOutage",
                 "NoDisruption">>

group_names == generate_group_name(controllers, topologies, disruptions)

considered_groups ==
    {"ARIMA_Decentral_BlockageConstant", "PID_Central_BlockageConstant",
     "PID_Decentral_BlockageCosine", "PID_Decentral_PumpOutage"}

metadata == Metadata("Configuration", "Service loss", "%",
                     "Energy consumption", "Wh")

\* f"run_{run_id:02d}"
RunName(r) == IF r < 10 THEN "run_0" \o ToString(r) ELSE "run_" \o ToString(r)
BasePath(group, r) == group \o "/" \o RunName(r)

DatasetNames == {"tank_1_pressure", "pump_1_power", "pump_2_power", "time"}

\* the paths main.py:67-75 looks up for one run
RunPaths(group, r) ==
    {BasePath(group, r)} \cup
    {BasePath(group, r) \o "/" \o name : name \in DatasetNames}

\* a loop that processes every enumerated group
IsConsideredAll(group) == TRUE

\* main.py:48
IsConsidered(group) == group \in considered_groups

\* a loop that never skips a group for its missing setpoint
SetpointNeverMissing(sp) == FALSE

\* main.py:53
SetpointMissing(sp) == sp.k = "none"

-----------------------------------------------------------------------------
(* Contents of the input archive seen by the pipeline *)

AllSets == DatasetNames
Pressure == <<6, 5, 4, 3, -1>>
Time5 == <<0, 1, 2, 3, 4>>
Pump1 == <<10, 10, 10, 10, 10>>
Pump2 == <<20, 20, 20, 20, 20>>

GroupNode(open, exists, attrs, sp) ==
    Node(open, exists, attrs, sp, 0, {}, <<>>, <<>>, <<>>, <<>>)

\* what may be found at <group_id>
GroupNodes ==
    {GroupNode(TRUE, TRUE, {"setpoint"}, 5),
     GroupNode(TRUE, TRUE, {"setpoint"}, 0),
     GroupNode(TRUE, TRUE, {}, 0),         \* attribute missing
     GroupNode(TRUE, FALSE, {}, 0),        \* path missing
     GroupNode(FALSE, FALSE, {}, 0)}       \* archive cannot be opened

RunNode(attrs, start, sets, tank, p1, p2, time) ==
    Node(TRUE, TRUE, attrs, 0, start, sets, tank, p1, p2, time)

GoodRun == RunNode({"analyse_start_time_index"}, 2, AllSets,
                   Pressure, Pump1, Pump2, Time5)

\* what may be found at <group_id>/run_NN, by name
RunNodeOf(name) ==
    CASE name = "good" -> GoodRun
      [] name = "no_index" -> [GoodRun EXCEPT !.attrs = {}]
      [] name = "no_tank" -> [GoodRun EXCEPT !.sets = AllSets \ {"tank_1_pressure"}]
      [] name = "no_pump_1" -> [GoodRun EXCEPT !.sets = AllSets \ {"pump_1_power"}]
      [] name = "no_pump_2" -> [GoodRun EXCEPT !.sets = AllSets \ {"pump_2_power"}]
      [] name = "no_time" -> [GoodRun EXCEPT !.sets = AllSets \ {"time"}]
      [] name = "unopenable" -> [GoodRun EXCEPT !.open = FALSE]
      [] name = "short_tank" -> [GoodRun EXCEPT !.tank_1_pressure = <<6, 5, 4, 3>>]
      [] name = "short_pump" -> [GoodRun EXCEPT !.pump_1_power = <<10, 10, 10, 10>>]
      [] OTHER -> [GoodRun EXCEPT !.start = 4]    \* "late_start"

RunNodeNames == {"good", "no_index", "no_tank", "no_pump_1", "no_pump_2",
                 "no_time", "unopenable", "short_tank", "short_pump",
                 "late_start"}

\* a unit left in the output archive by an earlier invocation
OldStore ==
    [key \in {"plotdata"} |->
        StoreNode([g \in {"DTW_Coupled_NoDisruption"} |->
                       Row(FromInt(1), Zero, FromInt(2), Zero)],
                  SetMetadataAttr(EmptyAttrs,
                                  Metadata("Old", "x", "1", "y", "1")))]

WrittenOf(st) ==
    [key \in DOMAIN st |->
        [table |-> st[key].table, metadata |-> st[key].attrs["metadata"]]]

-----------------------------------------------------------------------------
(* main.py: the pipeline *)

NoCall == [fn |-> "none"]
NoRun == [node |-> "none", index |-> 0, out |-> Outcome("none", NaN, NaN, FALSE)]

Init ==
    /\ pc = "group_loop"
    /\ gi = 1
    /\ setpoint = 0
    /\ run_id = 1
    /\ groups_service_loss = <<>>
    /\ groups_power = <<>>
    /\ processed_data = EmptyTable
    /\ store \in {EmptyStore, OldStore}
    /\ plot_data = EmptyTable
    /\ plot_format_data = NoMetadata
    /\ err = "none"
    /\ accessed = {}
    /\ last_run = NoRun
    /\ last_output_dir = "none"
    /\ had_setpoint = {}
    /\ no_setpoint = {}
    /\ written = WrittenOf(store)
    /\ call = NoCall
    /\ ret = None

\* main.py:46-49: a group outside considered_groups
SkipGroup ==
    /\ pc = "group_loop"
    /\ gi <= Len(group_names)
    /\ ~IsConsidered(group_names[gi])
    /\ gi' = gi + 1
    /\ UNCHANGED <<pc, setpoint, run_id, groups_service_loss, groups_power,
                   processed_data, store, plot_data, plot_format_data, err,
                   accessed, last_run, last_output_dir, had_setpoint,
                   no_setpoint, written, call, ret>>

\* main.py:51-59: read the setpoint; skip the group or enter the inner loop
ReadSetpoint(node) ==
    /\ pc = "group_loop"
    /\ gi <= Len(group_names)
    /\ IsConsidered(group_names[gi])
    /\ accessed' = accessed \cup {group_names[gi]}
    /\ LET sp == read_metadata(node, "setpoint")
       IN  /\ no_setpoint' = IF sp.k = "none"
                             THEN no_setpoint \cup {group_names[gi]}
                             ELSE no_setpoint
           /\ had_setpoint' = IF sp.k = "none"
                              THEN had_setpoint
                              ELSE had_setpoint \cup {group_names[gi]}
           /\ IF SetpointMissing(sp)
              THEN /\ gi' = gi + 1
                   /\ UNCHANGED <<pc, setpoint, run_id, groups_service_loss,
                                  groups_power, last_run>>
              ELSE /\ setpoint' = sp.n
                   /\ groups_service_loss' = <<>>
                   /\ groups_power' = <<>>
                   /\ run_id' = 1
                   /\ last_run' = NoRun
                   /\ pc' = "run_loop"
                   /\ UNCHANGED gi
    /\ UNCHANGED <<processed_data, store, plot_data, plot_format_data, err,
                   last_output_dir, written, call, ret>>

\* main.py:62-120: one iteration of the inner loop, on the run found in
\* the archive
ProcessRun(name) ==
    /\ pc = "run_loop"
    /\ run_id <= NumRuns
    /\ accessed' = accessed \cup RunPaths(group_names[gi], run_id)
    /\ LET out == RunBody(setpoint, RunNodeOf(name))
       IN  /\ last_run' = [node |-> name, index |-> run_id, out |-> out]
           /\ IF out.status = "raised"
              THEN /\ pc' = "crashed"
                   /\ err' = out.sl.k
                   /\ UNCHANGED <<run_id, groups_service_loss, groups_power>>
              ELSE /\ groups_service_loss' = Append(groups_service_loss, out.sl)
                   /\ groups_power' = Append(groups_power, out.energy)
                   /\ run_id' = run_id + 1
                   /\ UNCHANGED <<pc, err>>
    /\ UNCHANGED <<gi, setpoint, processed_data, store, plot_data,
                   plot_format_data, last_output_dir, had_setpoint,
                   no_setpoint, written, call, ret>>

\* main.py:122-134: reduce the two run-sets and store the group's row
Aggregate ==
    /\ pc = "run_loop"
    /\ run_id > NumRuns
    /\ LET sl == calculate_mean_and_std(groups_service_loss)
           pw == calculate_mean_and_std(groups_power)
           group == group_names[gi]
       IN  processed_data' =
               [g \in DOMAIN processed_data \cup {group} |->
                    IF g = group THEN Row(pw[1], pw[2], sl[1], sl[2])
                    ELSE processed_data[g]]
    /\ gi' = gi + 1
    /\ pc' = "group_loop"
    /\ last_run' = NoRun
    /\ UNCHANGED <<setpoint, run_id, groups_service_loss, groups_power, store,
                   plot_data, plot_format_data, err, accessed,
                   last_output_dir, had_setpoint, no_setpoint, written,
                   call, ret>>

\* main.py:136-154
Save ==
    /\ pc = "group_loop"
    /\ gi > Len(group_names)
    /\ LET r == save_dataframe_in_hdf5_with_metadata(
                    store, processed_data, "plotdata", metadata)
       IN  /\ store' = r.store
           /\ written' = NoteWrite(written, "plotdata", processed_data, metadata)
           /\ IF r.exc = "none"
              THEN pc' = "read_back" /\ UNCHANGED err
              ELSE pc' = "crashed" /\ err' = r.exc
    /\ UNCHANGED <<gi, setpoint, run_id, groups_service_loss, groups_power,
                   processed_data, plot_data, plot_format_data, accessed,
                   last_run, last_output_dir, had_setpoint, no_setpoint,
                   call, ret>>

\* main.py:156-159
ReadBack ==
    /\ pc = "read_back"
    /\ LET r == read_plot_data(store, "plotdata")
       IN  IF r.exc = "none"
           THEN /\ plot_data' = r.df
                /\ plot_format_data' = r.metadata
                /\ pc' = "plot"
                /\ UNCHANGED err
           ELSE /\ pc' = "crashed"
                /\ err' = r.exc
                /\ UNCHANGED <<plot_data, plot_format_data>>
    /\ UNCHANGED <<gi, setpoint, run_id, groups_service_loss, groups_power,
                   processed_data, store, accessed, last_run, last_output_dir,
                   had_setpoint, no_setpoint, written, call, ret>>

\* tagplot: the directory the plot and its sources are saved to
tagplot(destination_path, prefix) ==
    destination_path \o "/" \o prefix \o "_" \o "timestamp"

\* main.py:161-169, publish_plot, tagplot and publish
PublishPlot ==
    /\ pc = "plot"
    /\ last_output_dir' = tagplot("./plotid", "GdD_WS_2526_3774919")
    /\ pc' = "done"
    /\ UNCHANGED <<gi, setpoint, run_id, groups_service_loss, groups_power,
                   processed_data, store, plot_data, plot_format_data, err,
                   accessed, last_run, had_setpoint, no_setpoint, written,
                   call, ret>>

Next ==
    \/ SkipGroup
    \/ \E node \in GroupNodes : ReadSetpoint(node)
    \/ \E name \in RunNodeNames : ProcessRun(name)
    \/ Aggregate
    \/ Save
    \/ ReadBack
    \/ PublishPlot

Spec == Init /\ [][Next]_vars

-----------------------------------------------------------------------------
(* The result store on its own: any sequence of saves and reads *)

StoreKeys == {"plotdata", "other"}

OneRow == [g \in {"PID_Central_BlockageConstant"} |->
               Row(FromInt(1), Zero, FromInt(50), Zero)]
TwoRows == [g \in {"PID_Central_BlockageConstant", "PID_Decentral_PumpOutage"} |->
                IF g = "PID_Central_BlockageConstant"
                THEN Row(FromInt(2), Zero, NaN, NaN)
                ELSE NaNRow]

StoreTables == {EmptyTable, OneRow, TwoRows}
StoreMetadata == {metadata, Metadata("Old", "x", "1", "y", "1")}

Pending == [k |-> "pending", n |-> 0, d |-> 1]

InitStore ==
    /\ pc = "store"
    /\ gi = 1
    /\ setpoint = 0
    /\ run_id = 1
    /\ groups_service_loss = <<>>
    /\ groups_power = <<>>
    /\ processed_data = EmptyTable
    /\ store \in {EmptyStore, OldStore}
    /\ plot_data = EmptyTable
    /\ plot_format_data = NoMetadata
    /\ err = "none"
    /\ accessed = {}
    /\ last_run = NoRun
    /\ last_output_dir = "none"
    /\ had_setpoint = {}
    /\ no_setpoint = {}
    /\ written = WrittenOf(store)
    /\ call = [fn |-> "store", writes |-> 0]
    /\ ret = Pending

\* save_dataframe_in_hdf5_with_metadata(df, hdf5_path, key, md)
WriteUnit(df, key, md) ==
    /\ pc = "store"
    /\ call.writes < MaxWrites
    /\ LET r == save_dataframe_in_hdf5_with_metadata(store, df, key, md)
       IN  /\ store' = r.store
           /\ err' = r.exc
    /\ written' = NoteWrite(written, key, df, md)
    /\ call' = [call EXCEPT !.writes = @ + 1]
    /\ UNCHANGED <<pc, gi, setpoint, run_id, groups_service_loss,
                   groups_power, processed_data, plot_data, plot_format_data,
                   accessed, last_run, last_output_dir, had_setpoint,
                   no_setpoint, ret>>

\* read_plot_data(file_path, key)
ReadUnit(key) ==
    /\ pc = "store"
    /\ LET r == read_plot_data(store, key)
       IN  /\ plot_data' = r.df
           /\ plot_format_data' = r.metadata
           /\ err' = r.exc
    /\ ret' = [k |-> "read", key |-> key]
    /\ UNCHANGED <<pc, gi, setpoint, run_id, groups_service_loss,
                   groups_power, processed_data, store, accessed, last_run,
                   last_output_dir, had_setpoint, no_setpoint, written, call>>

NextStore ==
    \/ \E df \in StoreTables, key \in StoreKeys, md \in StoreMetadata :
           WriteUnit(df, key, md)
    \/ \E key \in StoreKeys : ReadUnit(key)

SpecStore == InitStore /\ [][NextStore]_vars

-----------------------------------------------------------------------------
(* Single applications of the functions of functions.py and of the inner   *)
(* loop body, on inputs drawn from bounded sets                            *)

Signals(maxlen, vals) == UNION {[1..n -> vals] : n \in 0..maxlen}

CapCalls ==
    {[fn |-> "cap", data |-> data, sp |-> sp] :
        data \in Signals(MaxLen, -1..(MaxVal + 1)), sp \in 0..MaxVal}

IntegrateCalls ==
    {[fn |-> "integrate", data |-> data, time |-> time] :
        data \in Signals(MaxLen, {-1, 0, MaxVal}),
        time \in Signals(MaxLen, 0..MaxVal)}

ReduceValues == {NaN, None} \cup {FromInt(i) : i \in 1..(MaxVal + 2)}

ReduceCalls ==
    {[fn |-> "reduce", data |-> data] :
        data \in Signals(MaxLen, ReduceValues) \ {<<>>}}

TankSignals == {Pressure, <<6, 5, 4, 3>>} \cup [1..MaxLen -> {0, MaxVal}]
TimeSignals == {Time5, [i \in 1..MaxLen |-> i * i]}
PumpSignals == {Pump1, [i \in 1..MaxLen |-> 3600], [i \in 1..MaxLen |-> i - 2]}

RunCallNodes ==
    {RunNode({"analyse_start_time_index"}, start, sets, tank, p1, p2, time) :
        start \in -1..(MaxLen + 1),
        sets \in {AllSets} \cup {AllSets \ {x} : x \in AllSets},
        tank \in TankSignals, p1 \in PumpSignals, p2 \in {Pump2},
        time \in TimeSignals}
    \cup
    {RunNode({}, 0, AllSets, tank, p1, Pump2, time) :
        tank \in TankSignals, p1 \in PumpSignals, time \in TimeSignals}

RunCalls ==
    {[fn |-> "run", sp |-> sp, node |-> node] :
        sp \in {0, MaxVal, 5}, node \in RunCallNodes}

InitFn ==
    /\ pc = "call"
    /\ gi = 1
    /\ setpoint = 0
    /\ run_id = 1
    /\ groups_service_loss = <<>>
    /\ groups_power = <<>>
    /\ processed_data = EmptyTable
    /\ store = EmptyStore
    /\ plot_data = EmptyTable
    /\ plot_format_data = NoMetadata
    /\ err = "none"
    /\ accessed = {}
    /\ last_run = NoRun
    /\ last_output_dir = "none"
    /\ had_setpoint = {}
    /\ no_setpoint = {}
    /\ written = WrittenOf(store)
    /\ call \in CapCalls \cup IntegrateCalls \cup ReduceCalls \cup RunCalls
    /\ ret = Pending

Return(value) ==
    /\ ret' = value
    /\ pc' = "returned"
    /\ UNCHANGED <<gi, setpoint, run_id, groups_service_loss, groups_power,
                   processed_data, store, plot_data, plot_format_data, err,
                   accessed, last_run, last_output_dir, had_setpoint,
                   no_setpoint, written, call>>

ApplyCap ==
    /\ pc = "call" /\ call.fn = "cap"
    /\ Return(cap_service_data(call.data, call.sp))

ApplyIntegrate ==
    /\ pc = "call" /\ call.fn = "integrate"
    /\ Return(integral_with_time_step(call.data, call.time))

ApplyReduce ==
    /\ pc = "call" /\ call.fn = "reduce"
    /\ Return(calculate_mean_and_std(call.data))

ApplyRun ==
    /\ pc = "call" /\ call.fn = "run"
    /\ Return(RunBody(call.sp, call.node))

NextFn == ApplyCap \/ ApplyIntegrate \/ ApplyReduce \/ ApplyRun

SpecFn == InitFn /\ [][NextFn]_vars

-----------------------------------------------------------------------------
(* Properties *)

Range(f) == {f[x] : x \in DOMAIN f}
AfterSave == pc \in {"read_back", "plot", "done"}

\* twice the trapezoid area under the first j samples
RECURSIVE TwiceAreaUpTo(_, _, _)
TwiceAreaUpTo(data, time, j) ==
    IF j < 2 THEN 0
    ELSE TwiceAreaUpTo(data, time, j - 1)
         + (data[j - 1] + data[j]) * (time[j] - time[j - 1])

Trapezoid(data, time) == Rat(TwiceAreaUpTo(data, time, Len(data)), 2)

SequenceAbsent(nd) == ~nd.open \/ ~nd.exists \/ nd.sets # AllSets

\* one of the integrations of the run returns None
MismatchReported(nd) ==
    /\ ~SequenceAbsent(nd)
    /\ LET s == read_metadata(nd, "analyse_start_time_index")
       IN  \/ Len(PySliceFrom(nd.tank_1_pressure, s)) # Len(PySliceFrom(nd.time, s))
           \/ Len(nd.pump_1_power) # Len(nd.time)
           \/ Len(nd.pump_2_power) # Len(nd.time)

\* C1: a run of an aggregated group that lacks one of the four sequences,
\* or one of whose integrations reports a length mismatch, has appended a
\* missing-value placeholder to both run-sets (and the loop went on).
C1_RunFailuresContained ==
    last_run.node # "none" =>
        LET nd == RunNodeOf(last_run.node)
            i == last_run.index
        IN  (SequenceAbsent(nd) \/ MismatchReported(nd)) =>
                /\ last_run.out.status = "missing"
                /\ Len(groups_service_loss) = i
                /\ Len(groups_power) = i
                /\ groups_service_loss[i] = NaN
                /\ groups_power[i] = NaN
                /\ pc = "run_loop"

\* C2: the pipeline is never aborted, and once the result store is written
\* it holds exactly one row for every group that had a setpoint.
C2_PipelineCompletes ==
    /\ pc # "crashed"
    /\ AfterSave =>
           /\ "plotdata" \in DOMAIN store
           /\ DOMAIN store["plotdata"].table = had_setpoint

AllowedGroups == considered_groups \cap Range(group_names)

AllowedPaths ==
    AllowedGroups \cup
    UNION {RunPaths(g, r) : g \in AllowedGroups, r \in 1..NumRuns}

\* C3: only allow-listed groups are looked up in the archive, and the rows
\* of the table (in memory, stored and read back) are allow-listed and
\* enumerated groups.
C3_AllowListOnly ==
    /\ accessed \subseteq AllowedPaths
    /\ DOMAIN processed_data \subseteq AllowedGroups
    /\ AfterSave => DOMAIN store["plotdata"].table \subseteq AllowedGroups
    /\ pc \in {"plot", "done"} => DOMAIN plot_data \subseteq AllowedGroups

C3_Witness ==
    /\ pc = "done"
    /\ gi > Len(group_names)
    /\ DOMAIN plot_data # {}
    /\ \E i \in 1..Len(group_names) : group_names[i] \notin considered_groups

\* C4: a group whose setpoint is absent has no row, none of its runs is
\* looked up, and the outer loop has moved past it.
C4_NoSetpointSkipped ==
    \A i \in 1..Len(group_names) :
        group_names[i] \in no_setpoint =>
            /\ group_names[i] \notin DOMAIN processed_data
            /\ \A r \in 1..NumRuns :
                   RunPaths(group_names[i], r) \cap accessed = {}
            /\ i < gi

C4_Witness ==
    \E i, j \in 1..Len(group_names) :
        /\ i < j
        /\ group_names[i] \in no_setpoint
        /\ group_names[j] \in DOMAIN processed_data

\* C5: in every state, reading any key that has been written returns the
\* table and the metadata of the latest save at that key.
C5_RoundTrip ==
    \A key \in DOMAIN written :
        LET r == read_plot_data(store, key)
        IN  /\ r.exc = "none"
            /\ r.df = written[key].table
            /\ r.metadata = written[key].metadata

\* the round trip for the keys whose latest save had a table with rows
RoundTripNonEmpty ==
    \A key \in DOMAIN written :
        DOMAIN written[key].table # {} =>
            LET r == read_plot_data(store, key)
            IN  /\ r.exc = "none"
                /\ r.df = written[key].table
                /\ r.metadata = written[key].metadata

RECURSIVE IntSum(_)
IntSum(data) == IF data = <<>> THEN 0 ELSE Head(data).n + IntSum(Tail(data))

RECURSIVE IntSumSq(_)
IntSumSq(data) ==
    IF data = <<>> THEN 0 ELSE Head(data).n * Head(data).n + IntSumSq(Tail(data))

Square(x) == IF x.k = "surd" THEN Rat(x.n, x.d) ELSE RMul(x, x)

\* C6: a run-set with a missing entry reduces to (nan, nan); one without
\* reduces to its arithmetic mean and population standard deviation
\* (n^2 * std^2 = n * sum(x^2) - sum(x)^2); [2, 4] gives (3, 1).
C6_ReduceCorrect ==
    (pc = "returned" /\ call.fn = "reduce") =>
        LET data == call.data
            n == Len(data)
        IN  /\ IF \E i \in 1..n : data[i].k \in {"nan", "none"}
               THEN ret = <<NaN, NaN>>
               ELSE /\ ret[1] = Rat(IntSum(data), n)
                    /\ ret[2].k \in {"num", "surd"}
                    /\ ret[2].n >= 0
                    /\ Square(ret[2]) =
                           Rat(n * IntSumSq(data) - IntSum(data) * IntSum(data),
                               n * n)
            /\ data = <<FromInt(2), FromInt(4)>> =>
                   ret = <<FromInt(3), FromInt(1)>>

C6_Witness ==
    /\ pc = "returned"
    /\ call.fn = "reduce"
    /\ call.data = <<FromInt(1), NaN, FromInt(3)>>
    /\ ret = <<NaN, NaN>>

\* C7: for a setpoint >= 0 the capped signal has the length of the input,
\* stays within [0, setpoint], and keeps every sample that was inside.
C7_CapWithinBounds ==
    (pc = "returned" /\ call.fn = "cap" /\ call.sp >= 0) =>
        /\ Len(ret) = Len(call.data)
        /\ \A i \in 1..Len(call.data) :
               /\ ret[i] >= 0
               /\ ret[i] <= call.sp
               /\ (call.data[i] >= 0 /\ call.data[i] <= call.sp) =>
                      ret[i] = call.data[i]
               /\ call.data[i] > call.sp => ret[i] = call.sp
               /\ call.data[i] < 0 => ret[i] = 0

C7_Witness ==
    /\ pc = "returned"
    /\ call.fn = "cap"
    /\ call.sp = 1
    /\ call.data = <<-1, 1, 2>>
    /\ ret = <<0, 1, 1>>

\* C8: for equal lengths n >= 1 the integral is the trapezoid sum (0 for a
\* single sample, a for [a, a] over [0, 1]); for different lengths it is None.
C8_IntegrateCorrect ==
    (pc = "returned" /\ call.fn = "integrate") =>
        /\ Len(call.data) # Len(call.time) => ret = None
        /\ (Len(call.data) = Len(call.time) /\ Len(call.data) >= 1) =>
               /\ ret = Trapezoid(call.data, call.time)
               /\ Len(call.data) = 1 => ret = Zero
               /\ (call.time = <<0, 1>> /\ call.data[1] = call.data[2]) =>
                      ret = FromInt(call.data[1])

C8_Witness ==
    /\ pc = "returned"
    /\ call.fn = "integrate"
    /\ call.data = <<2, 0, -1>>
    /\ call.time = <<0, 1, 2>>
    /\ ret = Rat(1, 2)

Clamp(x, sp) == IF x < 0 THEN 0 ELSE IF x > sp THEN sp ELSE x

\* C9: a computed run with start index s >= 0 has service loss
\* 100 * (1 - A / T), A the integral of the capped pressure and T that of
\* the constant setpoint over the samples from s on, and energy the sum of
\* the pump integrals over the whole series divided by 3600; the run of
\* the end-to-end scenario has service loss 50.
C9_RunMetrics ==
    (pc = "returned" /\ call.fn = "run") =>
        LET nd == call.node
            n == Len(nd.time)
            s == nd.start
            capped == [i \in 1..Len(nd.tank_1_pressure) |->
                           Clamp(nd.tank_1_pressure[i], call.sp)]
        IN  /\ (ret.status = "computed" /\ nd.attrs # {} /\ s >= 0) =>
                   LET A == Trapezoid(SubSeq(capped, s + 1, n),
                                      SubSeq(nd.time, s + 1, n))
                       T == FromInt(call.sp * (nd.time[n] - nd.time[s + 1]))
                   IN  /\ T # Zero
                       /\ RMul(ret.sl, T) = RMul(FromInt(100), RSub(T, A))
                       /\ RMul(ret.energy, FromInt(3600)) =
                              RAdd(Trapezoid(nd.pump_1_power, nd.time),
                                   Trapezoid(nd.pump_2_power, nd.time))
            /\ (nd = GoodRun /\ call.sp = 5) =>
                   /\ ret.status = "computed"
                   /\ ret.sl = FromInt(50)
                   /\ ret.energy = Rat(1, 30)

C9_Witness ==
    /\ pc = "returned"
    /\ call.fn = "run"
    /\ call.node = GoodRun
    /\ call.sp = 5
    /\ ret.status = "computed"
    /\ ret.sl = FromInt(50)

\* C10: a run with its four sequences but without analyse_start_time_index
\* is no placeholder: its outcome is that of the same run with start index
\* 0, and a computed outcome is appended to both run-sets.
C10_AbsentIndexComputed ==
    last_run.node # "none" =>
        LET nd == RunNodeOf(last_run.node)
            i == last_run.index
        IN  (~SequenceAbsent(nd) /\ nd.attrs = {}) =>
                /\ last_run.out.status # "missing"
                /\ last_run.out =
                       RunBody(setpoint,
                               [nd EXCEPT !.attrs = {"analyse_start_time_index"},
                                          !.start = 0])
                /\ last_run.out.status = "computed" =>
                       /\ Len(groups_service_loss) = i
                       /\ Len(groups_power) = i
                       /\ groups_service_loss[i] = last_run.out.sl
                       /\ groups_service_loss[i].k = "num"
                       /\ groups_power[i] = last_run.out.energy
                       /\ groups_power[i].k = "num"

C10_Witness ==
    /\ last_run.node = "no_index"
    /\ last_run.out.status = "computed"
    /\ last_run.index = 2
    /\ Len(groups_service_loss) = 2
    /\ groups_service_loss[2].k = "num"
    /\ groups_service_loss[2] # FromInt(50)

====
